---- MODULE Spec2Model ----
(***************************************************************************)
(* Model of scraper's element references (src/src/element_ref/mod.rs) and  *)
(* of the fallible-iterator bridge (src/src/trait.rs).                     *)
(*                                                                         *)
(* The document tree is immutable input: Init draws it from all small      *)
(* trees.  One behaviour creates one iterator (select, text or             *)
(* descendent_elements) on an element of the tree and then polls it with   *)
(* next / try_next.                                                        *)
(***************************************************************************)
EXTENDS Integers, Sequences, FiniteSets

\* Number of nodes of the tree (node 1 is the fragment root).
MaxNodes == 4
\* Number of next / try_next calls made on one iterator.
MaxCalls == 4

Nodes == 1 .. MaxNodes
Names == {"a", "b"}
Texts == {"x", "y"}

\* Option<T>: None is the empty sequence, Some(x) the one-element sequence.
None == << >>
Some(x) == << x >>

\* crate::Node, the payload of a tree node.
NodeValues ==
    {[kind |-> "Fragment", data |-> ""], [kind |-> "Comment", data |-> ""]}
        \cup {[kind |-> "Element", data |-> n] : n \in Names}
        \cup {[kind |-> "Text", data |-> t] : t \in Texts}

VARIABLES
    tree,      \* the parsed document: node links and values, never changed
    mode,      \* which iterator this behaviour created: idle/select/text/descendants/children
    sel,       \* the Select iterator   [scope, inner, selector, index]
    txt,       \* the Text iterator     [inner, index]
    des,       \* the descendent_elements iterator [inner]
    chi,       \* the child_elements iterator [front, back]
    attrs,     \* the attributes of each node's element payload, never changed
    view,      \* the last attr / try_attr / html / inner_html call and its result
    anchor,    \* history: the element E the iterator was created on (0: none yet)
    query,     \* history: the selector S given to select (None: none)
    out,       \* history: the Option returned by each next (or inside try_next)
    lastCall,  \* history: "none", "next" or "try_next"
    lastRes,   \* history: the Result of the last try_next
    errCalls,  \* history: try_next_err invocations made by the last call
    examined,  \* history: <<candidate, scope>> pairs given to matches_with_scope
    events     \* history: number of walk events pulled from the inner Traverse

vars == << tree, mode, sel, txt, des, chi, attrs, view, anchor, query,
           out, lastCall, lastRes, errCalls, examined, events >>

-----------------------------------------------------------------------------
(* The tree (ego_tree, read through NodeRef).                              *)

\* Parent links point to an earlier node; siblings are ordered by node id.
ParentMaps ==
    {p \in [Nodes -> 0 .. MaxNodes] :
        p[1] = 0 /\ \A n \in Nodes \ {1} : p[n] \in 1 .. (n - 1)}

\* Only the root is a fragment.
ValueMaps ==
    {v \in [Nodes -> NodeValues] :
        v[1].kind = "Fragment" /\ \A n \in Nodes \ {1} : v[n].kind # "Fragment"}

MinOf(S) == CHOOSE x \in S : \A y \in S : x <= y

\* The links ego_tree stores in each node, for parent links p.
FirstChildOf(p) ==
    [n \in Nodes |->
        LET ch == {c \in Nodes : p[c] = n}
        IN  IF ch = {} THEN None ELSE Some(MinOf(ch))]

NextSiblingOf(p) ==
    [n \in Nodes |->
        LET later == {c \in Nodes : p[c] = p[n] /\ c > n}
        IN  IF p[n] = 0 \/ later = {} THEN None ELSE Some(MinOf(later))]

\* The parsed documents: text and comment nodes are leaves.
Trees ==
    {[parent |-> p, first_child |-> FirstChildOf(p),
      next_sibling |-> NextSiblingOf(p), value |-> v] :
        << p, v >> \in
            {pv \in ParentMaps \X ValueMaps :
                \A n \in Nodes \ {1} :
                    pv[2][pv[1][n]].kind \in {"Fragment", "Element"}}}

\* NodeRef::parent (0 for the root), NodeRef::value
parent(n) == tree.parent[n]
value(n) == tree.value[n]

\* NodeRef::children, in sibling order by node id
children(n) == {c \in Nodes : parent(c) = n}

\* NodeRef::first_child
first_child(n) == tree.first_child[n]

\* NodeRef::next_sibling
next_sibling(n) == tree.next_sibling[n]

\* Node::is_element
is_element(n) == value(n).kind = "Element"

Elements == {n \in Nodes : is_element(n)}


\* Mutant of wrap: wraps a node of any kind.
wrap_any(n) == Some(n)

\* ElementRef::wrap: Some(ElementRef) only for an element node.
wrap(n) == IF is_element(n) THEN Some(n) ELSE None

-----------------------------------------------------------------------------
(* ego_tree::iter::Traverse: the open/close walk of a subtree.             *)

Open(n) == << "Open", n >>
Close(n) == << "Close", n >>

\* NodeRef::traverse: a walk that has produced no edge yet.
traverse(n) == [root |-> n, edge |-> None]

\* Mutant of Traverse::root: a walk that forgets its root once it has closed it.
Traverse_root_cleared(tr) == IF tr.edge = None THEN 0 ELSE tr.root

\* Traverse::root
Traverse_root(tr) == tr.root

\* Traverse::next: the walk after one step; the edge it returns is .edge of the
\* result (None when the walk has just closed its root).  A walk whose edge is
\* None steps to Open(root): this holds before the first step and again after
\* the walk has closed its root.
Traverse_next(tr) ==
    IF tr.edge = None
    THEN [tr EXCEPT !.edge = Open(tr.root)]
    ELSE LET node == tr.edge[2] IN
         IF tr.edge[1] = "Open"
         THEN IF first_child(node) # None
              THEN [tr EXCEPT !.edge = Open(first_child(node)[1])]
              ELSE [tr EXCEPT !.edge = Close(node)]
         ELSE IF node = tr.root
              THEN [tr EXCEPT !.edge = None]
              ELSE IF next_sibling(node) # None
                   THEN [tr EXCEPT !.edge = Open(next_sibling(node)[1])]
                   ELSE [tr EXCEPT !.edge =
                            IF parent(node) = 0 THEN None ELSE Close(parent(node))]

-----------------------------------------------------------------------------
(* crate::Selector, as far as ElementRef uses it.                          *)

\* The compiled selectors under test:  *   b   :scope   :scope > b   a > b
Selectors ==
    {[kind |-> "Universal", name |-> "", of |-> ""],
     [kind |-> "Type", name |-> "b", of |-> ""],
     [kind |-> "Scope", name |-> "", of |-> ""],
     [kind |-> "ScopeChild", name |-> "b", of |-> ""],
     [kind |-> "Child", name |-> "b", of |-> "a"]}

\* Element::is_root of ElementRef: the parent is the document node.
is_root(element) ==
    parent(element) # 0 /\ value(parent(element)).kind = "Document"

\* The :scope pseudo-class: the scope element when one is given, else the root.
matches_scope(element, scope) ==
    IF scope = None THEN is_root(element) ELSE element = scope[1]

\* Selector::matches_with_scope(element, scope)
matches_with_scope(selector, element, scope) ==
    CASE selector.kind = "Universal" -> TRUE
      [] selector.kind = "Type" -> value(element).data = selector.name
      [] selector.kind = "Scope" -> matches_scope(element, scope)
      [] selector.kind = "ScopeChild" ->
            /\ value(element).data = selector.name
            /\ parent(element) # 0
            /\ is_element(parent(element))
            /\ matches_scope(parent(element), scope)
      [] selector.kind = "Child" ->
            /\ value(element).data = selector.name
            /\ parent(element) # 0
            /\ is_element(parent(element))
            /\ value(parent(element)).data = selector.of

-----------------------------------------------------------------------------
(* ElementRef::select and Select.                                          *)

\* Mutant of select: the count of matches starts at 1.
ElementRef_select_index_one(self, selector) ==
    [scope |-> self,
     inner |-> Traverse_next(traverse(self)),
     selector |-> selector,
     index |-> 1]

\* ElementRef::select: the walk of self with its first edge, Open(self), taken.
ElementRef_select(self, selector) ==
    [scope |-> self,
     inner |-> Traverse_next(traverse(self)),
     selector |-> selector,
     index |-> 0]

\* Mutant of the scope argument: no scope is given (plain matches).
Select_scope_arg_none(s) == None

\* The scope argument Select::next gives to matches_with_scope.
Select_scope_arg(s) == Some(s.scope)

\* Mutant of the candidate: the Open test is missing, Close edges count too.
Select_candidate_any_edge(edge) == wrap(edge[2])

\* The candidate Select::next takes from an edge: the element of an Open edge.
Select_candidate(edge) == IF edge[1] = "Open" THEN wrap(edge[2]) ELSE None

\* Select::next: pulls edges from the inner walk until an element opens that
\* the selector matches, or the walk returns None.  ex and ev carry the history
\* of candidates examined and of edges pulled.
RECURSIVE Select_loop(_, _, _)
Select_loop(s, ex, ev) ==
    LET inner2 == Traverse_next(s.inner)
        edge == inner2.edge
        s2 == [s EXCEPT !.inner = inner2]
    IN  IF edge = None
        THEN [it |-> s2, item |-> None, examined |-> ex, events |-> ev]
        ELSE IF Select_candidate(edge) # None
             THEN LET element == Select_candidate(edge)[1]
                      ex2 == ex \cup {<< element, Select_scope_arg(s) >>}
                  IN  IF matches_with_scope(s.selector, element, Select_scope_arg(s))
                      THEN [it |-> [s2 EXCEPT !.index = @ + 1],
                            item |-> Some(element),
                            examined |-> ex2, events |-> ev + 1]
                      ELSE Select_loop(s2, ex2, ev + 1)
             ELSE Select_loop(s2, ex, ev + 1)

Select_next(s) == Select_loop(s, examined, events)

\* Mutant of try_next_err: the index is that of the next element.
Select_try_next_err_off_by_one(s) ==
    [scope |-> s.scope, selector |-> s.selector, index |-> s.index + 1]

\* TryNextError for Select: try_next_err
Select_try_next_err(s) ==
    [scope |-> s.scope, selector |-> s.selector, index |-> s.index]

-----------------------------------------------------------------------------
(* ElementRef::text and Text.                                              *)

\* ElementRef::text: the walk of self, no edge taken.
ElementRef_text(self) == [inner |-> traverse(self), index |-> 0]

\* Mutant of the fragment: the Open test is missing, Close edges count too.
Text_candidate_any_edge(edge) ==
    IF value(edge[2]).kind = "Text" THEN Some(value(edge[2]).data) ELSE None

\* The fragment Text::next takes from an edge: the text of an Open text node.
Text_candidate(edge) ==
    IF edge[1] = "Open" /\ value(edge[2]).kind = "Text"
    THEN Some(value(edge[2]).data)
    ELSE None

\* Text::next: pulls edges until a text node opens, or the walk returns None.
RECURSIVE Text_loop(_, _)
Text_loop(t, ev) ==
    LET inner2 == Traverse_next(t.inner)
        edge == inner2.edge
        t2 == [t EXCEPT !.inner = inner2]
    IN  IF edge = None
        THEN [it |-> t2, item |-> None, events |-> ev]
        ELSE IF Text_candidate(edge) # None
             THEN [it |-> [t2 EXCEPT !.index = @ + 1],
                   item |-> Text_candidate(edge),
                   events |-> ev + 1]
             ELSE Text_loop(t2, ev + 1)

Text_next(t) == Text_loop(t, events)

\* TryNextError for Text: try_next_err
Text_try_next_err(t) == [root |-> Traverse_root(t.inner), index |-> t.index]

-----------------------------------------------------------------------------
(* ElementRef::descendent_elements: descendants().filter_map(wrap).        *)

\* Mutant of descendent_elements: the walk is primed as select primes it.
ElementRef_descendent_elements_primed(self) ==
    [inner |-> Traverse_next(traverse(self))]

\* NodeRef::descendants: the nodes the walk of self opens.
ElementRef_descendent_elements(self) == [inner |-> traverse(self)]

\* Descendants::next under filter_map(ElementRef::wrap): pulls edges until a
\* node opens that wrap accepts, or the walk returns None.
RECURSIVE DescendentElements_loop(_, _)
DescendentElements_loop(d, ev) ==
    LET inner2 == Traverse_next(d.inner)
        edge == inner2.edge
        d2 == [d EXCEPT !.inner = inner2]
    IN  IF edge = None
        THEN [it |-> d2, item |-> None, events |-> ev]
        ELSE IF edge[1] = "Open" /\ wrap(edge[2]) # None
             THEN [it |-> d2, item |-> wrap(edge[2]), events |-> ev + 1]
             ELSE DescendentElements_loop(d2, ev + 1)

DescendentElements_next(d) == DescendentElements_loop(d, events)

-----------------------------------------------------------------------------
(* ElementRef::child_elements: children().filter_map(wrap).                *)

MaxOf(S) == CHOOSE x \in S : \A y \in S : x >= y

\* NodeRef::last_child
last_child(n) == IF children(n) = {} THEN None ELSE Some(MaxOf(children(n)))

\* NodeRef::children: the iterator from the first to the last child.
ElementRef_child_elements(self) ==
    [front |-> first_child(self), back |-> last_child(self)]

\* Mutant of Children::next: steps to the first child of a node, not to its
\* next sibling.
Children_next_descending(c) ==
    IF c.front = c.back
    THEN [it |-> [front |-> None, back |-> None], node |-> c.front]
    ELSE [it |-> [c EXCEPT !.front =
                     IF c.front = None THEN None ELSE first_child(c.front[1])],
          node |-> c.front]

\* Children::next: takes the front node; when front and back meet both are
\* cleared, else front moves to its next sibling.
Children_next(c) ==
    IF c.front = c.back
    THEN [it |-> [front |-> None, back |-> None], node |-> c.front]
    ELSE [it |-> [c EXCEPT !.front =
                     IF c.front = None THEN None ELSE next_sibling(c.front[1])],
          node |-> c.front]

\* FilterMap::next over the children with ElementRef::wrap: pulls children
\* until wrap accepts one, or the children return None.
RECURSIVE ChildElements_next(_)
ChildElements_next(c) ==
    LET r == Children_next(c) IN
        IF r.node = None
        THEN [it |-> r.it, item |-> None]
        ELSE IF wrap(r.node[1]) # None
             THEN [it |-> r.it, item |-> wrap(r.node[1])]
             ELSE ChildElements_next(r.it)

-----------------------------------------------------------------------------
(* Attributes: ElementRef::attr and ElementRef::try_attr.                  *)

AttrNames == {"id", "class"}

\* The attribute lists an element payload may carry.
AttrLists == {<< >>, << << "id", "v" >> >>, << << "id", "w" >> >>}

\* Element::attr: the value of the first attribute of that name.
Element_attr(n, name) ==
    LET hits == {i \in DOMAIN attrs[n] : attrs[n][i][1] = name}
    IN  IF hits = {} THEN None ELSE Some(attrs[n][MinOf(hits)][2])

\* ElementRef::attr
ElementRef_attr(self, attr) == Element_attr(self, attr)

\* Mutant of try_attr: an absent attribute reads as the empty string.
ElementRef_try_attr_defaulted(self, attr) ==
    IF ElementRef_attr(self, attr) # None
    THEN << "Ok", ElementRef_attr(self, attr)[1] >>
    ELSE << "Ok", "" >>

\* ElementRef::try_attr: attr(..).ok_or_else(|| AttrNotFoundError {..})
ElementRef_try_attr(self, attr) ==
    IF ElementRef_attr(self, attr) # None
    THEN << "Ok", ElementRef_attr(self, attr)[1] >>
    ELSE << "Err", [element |-> self, attr |-> attr] >>

-----------------------------------------------------------------------------
(* Serialization: ElementRef::serialize, html and inner_html.              *)

\* What the serializer writes when the walk opens node n.
serialize_open(n) ==
    CASE value(n).kind = "Element" ->
            << << "start", value(n).data, attrs[n] >> >>
      [] value(n).kind = "Text" -> << << "text", value(n).data >> >>
      [] value(n).kind = "Comment" -> << << "comment", value(n).data >> >>
      [] OTHER -> << >>

\* The void elements of HTML among the names under test: the serializer
\* writes no end tag for them.
VoidNames == {"br"}

\* What the serializer writes when the walk closes node n.
serialize_close(n) ==
    IF value(n).kind = "Element" /\ value(n).data \notin VoidNames
    THEN << << "end", value(n).data >> >>
    ELSE << >>

\* Serialize for ElementRef: one walk of self; with ChildrenOnly the edges of
\* self itself are skipped.
RECURSIVE serialize_walk(_, _, _, _)
serialize_walk(tr, self, traversal_scope, buf) ==
    LET tr2 == Traverse_next(tr)
        edge == tr2.edge
    IN  IF edge = None
        THEN buf
        ELSE IF edge[2] = self /\ traversal_scope = "ChildrenOnly"
             THEN serialize_walk(tr2, self, traversal_scope, buf)
             ELSE IF edge[1] = "Open"
                  THEN serialize_walk(tr2, self, traversal_scope,
                                      buf \o serialize_open(edge[2]))
                  ELSE serialize_walk(tr2, self, traversal_scope,
                                      buf \o serialize_close(edge[2]))

\* html5ever::serialize::serialize(&mut buf, self, opts)
serialize(self, opts) == serialize_walk(traverse(self), self, opts.traversal_scope, << >>)

\* ElementRef::serialize: the options it builds and the string it returns.
ElementRef_serialize(self, traversal_scope) ==
    LET opts == [scripting_enabled |-> FALSE,
                 traversal_scope |-> traversal_scope,
                 create_missing_parent |-> FALSE]
    IN  [opts |-> opts, string |-> serialize(self, opts)]

\* Mutant of html: serializes the children only.
ElementRef_html_children_only(self) == ElementRef_serialize(self, "ChildrenOnly")

\* ElementRef::html
ElementRef_html(self) == ElementRef_serialize(self, "IncludeNode")

\* ElementRef::inner_html
ElementRef_inner_html(self) == ElementRef_serialize(self, "ChildrenOnly")

-----------------------------------------------------------------------------
(* impl TryNext for T: try_next is next().ok_or_else(|| try_next_err()).   *)

\* Mutant of try_next: ok_or in place of ok_or_else, the error is always built.
try_next_eager(r, err) ==
    [it |-> r.it,
     item |-> r.item,
     res |-> IF r.item # None THEN << "Ok", r.item[1] >> ELSE << "Err", err >>,
     called |-> 1]

\* try_next, given r, what next() did (the iterator after it and the item),
\* and err, what try_next_err() returns on that iterator: the Result, and how
\* many times the error closure ran.
try_next(r, err) ==
    [it |-> r.it,
     item |-> r.item,
     res |-> IF r.item # None THEN << "Ok", r.item[1] >> ELSE << "Err", err >>,
     called |-> IF r.item # None THEN 0 ELSE 1]

-----------------------------------------------------------------------------
(* The state machine.                                                      *)

\* Element payloads without attributes.
NoAttrs == [n \in Nodes |-> << >>]

Init ==
    /\ tree \in Trees
    /\ attrs = NoAttrs
    /\ view = None
    /\ mode = "idle"
    /\ sel = None
    /\ txt = None
    /\ des = None
    /\ chi = None
    /\ anchor = 0
    /\ query = None
    /\ out = << >>
    /\ lastCall = "none"
    /\ lastRes = None
    /\ errCalls = 0
    /\ examined = {}
    /\ events = 0

\* E.select(S) on an element E of the tree.
Select ==
    /\ mode = "idle"
    /\ \E self \in Elements, selector \in Selectors :
          /\ sel' = ElementRef_select(self, selector)
          /\ anchor' = self
          /\ query' = Some(selector)
    /\ mode' = "select"
    /\ events' = 1
    /\ UNCHANGED << chi, attrs, view >>
    /\ UNCHANGED << tree, txt, des, out, lastCall, lastRes, errCalls, examined >>

\* Iterator::next on the Select.
SelectNext ==
    /\ mode = "select"
    /\ Len(out) < MaxCalls
    /\ LET r == Select_next(sel) IN
          /\ sel' = r.it
          /\ out' = Append(out, r.item)
          /\ examined' = r.examined
          /\ events' = r.events
    /\ lastCall' = "next"
    /\ lastRes' = None
    /\ errCalls' = 0
    /\ UNCHANGED << chi, attrs, view >>
    /\ UNCHANGED << tree, mode, anchor, query, txt, des >>

\* TryNext::try_next on the Select.
SelectTryNext ==
    /\ mode = "select"
    /\ Len(out) < MaxCalls
    /\ LET r == Select_next(sel)
           t == try_next(r, Select_try_next_err(r.it))
       IN  /\ sel' = t.it
           /\ out' = Append(out, t.item)
           /\ examined' = r.examined
           /\ events' = r.events
           /\ lastRes' = t.res
           /\ errCalls' = t.called
    /\ lastCall' = "try_next"
    /\ UNCHANGED << chi, attrs, view >>
    /\ UNCHANGED << tree, mode, anchor, query, txt, des >>

\* E.text() on an element E of the tree.
Text ==
    /\ mode = "idle"
    /\ \E self \in Elements :
          /\ txt' = ElementRef_text(self)
          /\ anchor' = self
    /\ mode' = "text"
    /\ UNCHANGED << chi, attrs, view >>
    /\ UNCHANGED << tree, sel, des, query, out, lastCall, lastRes, errCalls,
                    examined, events >>

\* Iterator::next on the Text.
TextNext ==
    /\ mode = "text"
    /\ Len(out) < MaxCalls
    /\ LET r == Text_next(txt) IN
          /\ txt' = r.it
          /\ out' = Append(out, r.item)
          /\ events' = r.events
    /\ lastCall' = "next"
    /\ lastRes' = None
    /\ errCalls' = 0
    /\ UNCHANGED << chi, attrs, view >>
    /\ UNCHANGED << tree, mode, anchor, query, sel, des, examined >>

\* TryNext::try_next on the Text.
TextTryNext ==
    /\ mode = "text"
    /\ Len(out) < MaxCalls
    /\ LET r == Text_next(txt)
           t == try_next(r, Text_try_next_err(r.it))
       IN  /\ txt' = t.it
           /\ out' = Append(out, t.item)
           /\ events' = r.events
           /\ lastRes' = t.res
           /\ errCalls' = t.called
    /\ lastCall' = "try_next"
    /\ UNCHANGED << chi, attrs, view >>
    /\ UNCHANGED << tree, mode, anchor, query, sel, des, examined >>

\* E.descendent_elements() on an element E of the tree.
DescendentElements ==
    /\ mode = "idle"
    /\ \E self \in Elements :
          /\ des' = ElementRef_descendent_elements(self)
          /\ anchor' = self
    /\ mode' = "descendants"
    /\ UNCHANGED << chi, attrs, view >>
    /\ UNCHANGED << tree, sel, txt, query, out, lastCall, lastRes, errCalls,
                    examined, events >>

\* Iterator::next on the descendent_elements iterator.
DescendentElementsNext ==
    /\ mode = "descendants"
    /\ Len(out) < MaxCalls
    /\ LET r == DescendentElements_next(des) IN
          /\ des' = r.it
          /\ out' = Append(out, r.item)
          /\ events' = r.events
    /\ lastCall' = "next"
    /\ lastRes' = None
    /\ errCalls' = 0
    /\ UNCHANGED << chi, attrs, view >>
    /\ UNCHANGED << tree, mode, anchor, query, sel, txt, examined >>

\* E.child_elements() on an element E of the tree.
ChildElements ==
    /\ mode = "idle"
    /\ \E self \in Elements :
          /\ chi' = ElementRef_child_elements(self)
          /\ anchor' = self
    /\ mode' = "children"
    /\ UNCHANGED << attrs, view >>
    /\ UNCHANGED << tree, sel, txt, des, query, out, lastCall, lastRes,
                    errCalls, examined, events >>

\* Iterator::next on the child_elements iterator.
ChildElementsNext ==
    /\ mode = "children"
    /\ Len(out) < MaxCalls
    /\ LET r == ChildElements_next(chi) IN
          /\ chi' = r.it
          /\ out' = Append(out, r.item)
    /\ lastCall' = "next"
    /\ lastRes' = None
    /\ errCalls' = 0
    /\ UNCHANGED << attrs, view >>
    /\ UNCHANGED << tree, mode, anchor, query, sel, txt, des, examined, events >>

Next ==
    \/ Select
    \/ SelectNext
    \/ SelectTryNext
    \/ Text
    \/ TextNext
    \/ TextTryNext
    \/ DescendentElements
    \/ DescendentElementsNext
    \/ ChildElements
    \/ ChildElementsNext

Spec == Init /\ [][Next]_vars

-----------------------------------------------------------------------------
(* The element view: one attribute lookup or serialization per behaviour   *)
(* (the calls read the tree only, so a second call sees what the first saw). *)

\* The attribute maps of a tree: only elements carry attributes.
AttrMaps(t) ==
    {a \in [Nodes -> AttrLists] :
        \A n \in Nodes : t.value[n].kind # "Element" => a[n] = << >>}

\* The documents the element view is taken of: those of Trees, and the ones
\* that hold void elements as well; a void element has no children.
ViewValueMaps ==
    {v \in [Nodes -> NodeValues \cup {[kind |-> "Element", data |-> n] : n \in VoidNames}] :
        v[1].kind = "Fragment" /\ \A n \in Nodes \ {1} : v[n].kind # "Fragment"}

ViewTrees ==
    {[parent |-> p, first_child |-> FirstChildOf(p),
      next_sibling |-> NextSiblingOf(p), value |-> v] :
        << p, v >> \in
            {pv \in ParentMaps \X ViewValueMaps :
                \A n \in Nodes \ {1} :
                    /\ pv[2][pv[1][n]].kind \in {"Fragment", "Element"}
                    /\ pv[2][pv[1][n]].data \notin VoidNames}}

InitView ==
    /\ tree \in ViewTrees
    /\ attrs \in AttrMaps(tree)
    /\ view = None
    /\ mode = "idle"
    /\ sel = None
    /\ txt = None
    /\ des = None
    /\ chi = None
    /\ anchor = 0
    /\ query = None
    /\ out = << >>
    /\ lastCall = "none"
    /\ lastRes = None
    /\ errCalls = 0
    /\ examined = {}
    /\ events = 0

iterVars == << mode, sel, txt, des, chi, anchor, query, out, lastCall, lastRes,
              errCalls, examined, events >>

\* E.attr(name)
ViewAttr ==
    /\ view = None
    /\ \E self \in Elements, name \in AttrNames :
          view' = [op |-> "attr", self |-> self, arg |-> name,
                   res |-> ElementRef_attr(self, name)]
    /\ UNCHANGED << tree, attrs, iterVars >>

\* E.try_attr(name)
ViewTryAttr ==
    /\ view = None
    /\ \E self \in Elements, name \in AttrNames :
          view' = [op |-> "try_attr", self |-> self, arg |-> name,
                   res |-> ElementRef_try_attr(self, name)]
    /\ UNCHANGED << tree, attrs, iterVars >>

\* E.html()
ViewHtml ==
    /\ view = None
    /\ \E self \in Elements :
          view' = [op |-> "html", self |-> self, arg |-> "",
                   res |-> ElementRef_html(self)]
    /\ UNCHANGED << tree, attrs, iterVars >>

\* E.inner_html()
ViewInnerHtml ==
    /\ view = None
    /\ \E self \in Elements :
          view' = [op |-> "inner_html", self |-> self, arg |-> "",
                   res |-> ElementRef_inner_html(self)]
    /\ UNCHANGED << tree, attrs, iterVars >>

NextView ==
    \/ ViewAttr
    \/ ViewTryAttr
    \/ ViewHtml
    \/ ViewInnerHtml

SpecView == InitView /\ [][NextView]_vars

-----------------------------------------------------------------------------
(* Reference definitions the properties are stated with: document order    *)
(* from the parent links alone, and the history of one iterator.           *)

RECURSIVE SortedSeq(_)
SortedSeq(S) ==
    IF S = {} THEN << >> ELSE << MinOf(S) >> \o SortedSeq(S \ {MinOf(S)})

\* The nodes of the subtree of n in pre-order (document order).
RECURSIVE PreOrder(_), PreOrderAll(_)
PreOrder(n) == << n >> \o PreOrderAll(SortedSeq(children(n)))
PreOrderAll(ns) ==
    IF ns = << >> THEN << >> ELSE PreOrder(Head(ns)) \o PreOrderAll(Tail(ns))

\* The position of node n in the document order of the whole tree.
DocPos(n) == LET po == PreOrder(1) IN CHOOSE i \in 1 .. MaxNodes : po[i] = n

\* The proper descendants of n, in document order.
ProperDescendants(n) == Tail(PreOrder(n))

IsPrefix(a, b) == Len(a) <= Len(b) /\ SubSeq(b, 1, Len(a)) = a

\* The index of the first call that returned None (0: none did).
FirstNone == 
    IF \E i \in DOMAIN out : out[i] = None
    THEN MinOf({i \in DOMAIN out : out[i] = None})
    ELSE 0

Exhausted == FirstNone # 0

\* The items yielded before the first None.
FirstRun ==
    LET n == IF Exhausted THEN FirstNone - 1 ELSE Len(out)
    IN  [i \in 1 .. n |-> out[i][1]]

\* The number of items yielded so far, over all calls.
YieldCount == Cardinality({i \in DOMAIN out : out[i] # None})

\* The elements select(S) on the anchor is to yield: the proper descendants
\* that are elements and that S matches with the anchor as scope.
IsSelected(n) == is_element(n) /\ matches_with_scope(query[1], n, Some(anchor))
ExpectedSelect == SelectSeq(ProperDescendants(anchor), IsSelected)

-----------------------------------------------------------------------------
(* Properties.                                                             *)

C3_ScopeIsAnchor ==
    mode = "select" =>
        /\ \A c \in examined : c[2] = Some(anchor)
        /\ query[1].kind = "ScopeChild" =>
              /\ \A i \in DOMAIN out :
                    out[i] # None =>
                        /\ parent(out[i][1]) = anchor
                        /\ value(out[i][1]) = [kind |-> "Element", data |-> query[1].name]
              /\ Exhausted =>
                    \A n \in children(anchor) :
                        value(n) = [kind |-> "Element", data |-> query[1].name]
                            => \E i \in DOMAIN out : out[i] = Some(n)

\* C3 witness: ':scope > b' has run to None on an anchor that holds a child b
\* and a b nested deeper; the child was yielded.
C3_Witness ==
    /\ mode = "select"
    /\ query[1].kind = "ScopeChild"
    /\ Exhausted
    /\ Len(FirstRun) = 1
    /\ \E n \in Nodes :
          /\ value(n) = [kind |-> "Element", data |-> "b"]
          /\ parent(n) # anchor
          /\ parent(n) # 0
          /\ parent(parent(n)) = anchor

\* C4: up to its first None, E.select(S) yields the proper descendants of E
\* that are elements and match S with scope E, each once, in document order,
\* and nothing else.
C4_SelectYieldsExactlyMatches ==
    mode = "select" =>
        /\ IsPrefix(FirstRun, ExpectedSelect)
        /\ Exhausted => FirstRun = ExpectedSelect

\* C4 witness: a select has run to None after yielding an element, on an
\* anchor outside whose subtree lies an element that S matches as well.
C4_Witness ==
    /\ mode = "select"
    /\ Exhausted
    /\ Len(FirstRun) >= 1
    /\ \E n \in Nodes \ {anchor} :
          /\ IsSelected(n)
          /\ \A i \in 1 .. Len(PreOrder(anchor)) : PreOrder(anchor)[i] # n

\* C5: two elements yielded by consecutive calls of a Select are in strict
\* document order: the first precedes the second in pre-order.
C5_DocumentOrder ==
    mode = "select" =>
        \A i \in DOMAIN out :
            (i + 1 \in DOMAIN out /\ out[i] # None /\ out[i + 1] # None)
                => DocPos(out[i][1]) < DocPos(out[i + 1][1])

\* C5 witness: two consecutive calls yielded two elements, the second not a
\* descendant of the first.
C5_Witness ==
    /\ mode = "select"
    /\ Len(out) >= 2
    /\ out[1] # None
    /\ out[2] # None
    /\ parent(out[2][1]) # out[1][1]

\* C6: try_next returns Ok(x) exactly when next from the same state returns
\* Some(x) and Err(try_next_err()) exactly when next returns None; it leaves
\* the iterator where one next call leaves it, and it calls try_next_err only
\* when next returned None.
C6_TryNextAgreesWithNext ==
    [][(lastCall' = "try_next" /\ Len(out') = Len(out) + 1) =>
          /\ mode = "select" =>
                LET r == Select_next(sel) IN
                    /\ sel' = r.it
                    /\ r.item # None =>
                          /\ lastRes'[1] = "Ok"
                          /\ lastRes'[2] = r.item[1]
                          /\ errCalls' = 0
                    /\ r.item = None =>
                          /\ lastRes'[1] = "Err"
                          /\ lastRes'[2] = Select_try_next_err(r.it)
                          /\ errCalls' = 1
          /\ mode = "text" =>
                LET r == Text_next(txt) IN
                    /\ txt' = r.it
                    /\ r.item # None =>
                          /\ lastRes'[1] = "Ok"
                          /\ lastRes'[2] = r.item[1]
                          /\ errCalls' = 0
                    /\ r.item = None =>
                          /\ lastRes'[1] = "Err"
                          /\ lastRes'[2] = Text_try_next_err(r.it)
                          /\ errCalls' = 1]_vars

\* C6 witness: a try_next has returned Ok and a later try_next has returned
\* Err on the same iterator.
C6_Witness ==
    /\ lastCall = "try_next"
    /\ lastRes[1] = "Err"
    /\ errCalls = 1
    /\ Len(out) >= 2
    /\ out[1] # None

\* C7: the error of a failed try_next on a Select carries the element select
\* was called on, the selector given to select, and the number of elements
\* the iterator has yielded so far.
C7_ElementNotFoundError ==
    (mode = "select" /\ lastCall = "try_next" /\ lastRes[1] = "Err") =>
        /\ lastRes[2].scope = anchor
        /\ lastRes[2].selector = query[1]
        /\ lastRes[2].index = YieldCount

\* C7 witness: try_next fails on a Select that has yielded two elements.
C7_Witness ==
    /\ mode = "select"
    /\ lastCall = "try_next"
    /\ lastRes[1] = "Err"
    /\ YieldCount = 2

\* C8: the error of a failed try_next on a Text carries the node of the
\* element text() was called on and the number of fragments the iterator has
\* yielded so far, also after the walk was exhausted before.
C8_TextNotFoundError ==
    (mode = "text" /\ lastCall = "try_next" /\ lastRes[1] = "Err") =>
        /\ lastRes[2].root = anchor
        /\ lastRes[2].index = YieldCount

\* C8 witness: try_next fails on a Text that has yielded a fragment and had
\* returned None once before.
C8_Witness ==
    /\ mode = "text"
    /\ lastCall = "try_next"
    /\ lastRes[1] = "Err"
    /\ YieldCount >= 1
    /\ FirstNone < Len(out)

\* The text nodes of the subtree of the anchor, in document order.
IsText(n) == value(n).kind = "Text"
ExpectedText ==
    LET ns == SelectSeq(PreOrder(anchor), IsText)
    IN  [i \in 1 .. Len(ns) |-> value(ns[i]).data]

\* C9: up to its first None, E.text() yields the content of every text node
\* of the subtree of E, each once, in document order, and nothing for any
\* other node.
C9_TextYieldsAllTextNodes ==
    mode = "text" =>
        /\ IsPrefix(FirstRun, ExpectedText)
        /\ Exhausted => FirstRun = ExpectedText

\* C9 witness: text() has run to None after yielding two different fragments.
C9_Witness ==
    /\ mode = "text"
    /\ Exhausted
    /\ Len(FirstRun) = 2
    /\ FirstRun[1] # FirstRun[2]

\* The elements of the subtree of the anchor, the anchor first.
ExpectedDescendentElements == SelectSeq(PreOrder(anchor), is_element)

\* C10: up to its first None, E.descendent_elements() yields E first and then
\* every element that is a proper descendant of E, each once, in document
\* order, and no text or other non-element node.
C10_DescendentElements ==
    mode = "descendants" =>
        /\ IsPrefix(FirstRun, ExpectedDescendentElements)
        /\ Len(FirstRun) >= 1 => FirstRun[1] = anchor
        /\ Exhausted =>
              /\ FirstRun = ExpectedDescendentElements
              /\ Cardinality({i \in DOMAIN FirstRun : FirstRun[i] = anchor}) = 1

\* C10 witness: descendent_elements() has run to None on an anchor with an
\* element child and a non-element child.
C10_Witness ==
    /\ mode = "descendants"
    /\ Exhausted
    /\ Len(FirstRun) = 2
    /\ Len(PreOrder(anchor)) = 3

\* The element children of the anchor, in document order.
ExpectedChildElements == SelectSeq(SortedSeq(children(anchor)), is_element)

\* All items yielded so far, over all calls.
AllYielded ==
    LET idx == SortedSeq({i \in DOMAIN out : out[i] # None})
    IN  [k \in 1 .. Len(idx) |-> out[idx[k]][1]]

\* C11: E.child_elements() yields the direct children of E that are elements,
\* in document order, each once, on any sequence of calls; never E, never a
\* deeper descendant, never a non-element child.
C11_ChildElements ==
    mode = "children" =>
        /\ IsPrefix(AllYielded, ExpectedChildElements)
        /\ Exhausted => AllYielded = ExpectedChildElements
        /\ \A i \in DOMAIN out :
              out[i] # None =>
                  /\ out[i][1] # anchor
                  /\ parent(out[i][1]) = anchor
                  /\ is_element(out[i][1])

\* C11 witness: child_elements() has run to None on an anchor with an element
\* child that has a child of its own, yielding one element.
C11_Witness ==
    /\ mode = "children"
    /\ Exhausted
    /\ Len(AllYielded) = 1
    /\ \E n \in Nodes : parent(n) # 0 /\ parent(n) # anchor /\ parent(parent(n)) = anchor

\* C12: try_attr(n) is Ok(v) with the value of attr(n) when attr(n) is
\* Some(v), and Err carrying the element and the name passed in when attr(n)
\* is None; no default value is substituted.
C12_TryAttr ==
    (view # None /\ view.op = "try_attr") =>
        LET a == ElementRef_attr(view.self, view.arg) IN
            /\ a # None => (view.res[1] = "Ok" /\ view.res[2] = a[1])
            /\ a = None =>
                  /\ view.res[1] = "Err"
                  /\ view.res[2] = [element |-> view.self, attr |-> view.arg]

\* C12 witness: try_attr failed on an element that carries another attribute,
\* in a tree where another element carries the attribute asked for.
C12_Witness ==
    /\ view # None
    /\ view.op = "try_attr"
    /\ view.res[1] = "Err"
    /\ view.arg = "class"
    /\ attrs[view.self] # << >>

\* The markup of the nodes ns, one after the other: an element's is what
\* html() returns for it, a text's or a comment's is its one token.
RECURSIVE ChildrenMarkup(_)
ChildrenMarkup(ns) ==
    IF ns = << >>
    THEN << >>
    ELSE LET c == Head(ns)
             m == CASE value(c).kind = "Element" -> ElementRef_html(c).string
                    [] value(c).kind = "Text" -> << << "text", value(c).data >> >>
                    [] OTHER -> << << "comment", value(c).data >> >>
         IN  m \o ChildrenMarkup(Tail(ns))

C16_ElementRefIsElement ==
    /\ \A n \in Nodes :
          wrap(n) = IF tree.value[n].kind = "Element" THEN Some(n) ELSE None
    /\ mode \in {"select", "descendants", "children"} =>
          /\ tree.value[anchor].kind = "Element"
          /\ \A i \in DOMAIN out :
                out[i] # None => tree.value[out[i][1]].kind = "Element"
    /\ mode = "select" =>
          /\ tree.value[sel.scope].kind = "Element"
          /\ (lastRes # None /\ lastRes[1] = "Err") =>
                tree.value[lastRes[2].scope].kind = "Element"

\* C16 witness: a select has yielded an element and then failed with an
\* error, on an anchor whose subtree holds a node that is not an element.
C16_Witness ==
    /\ mode = "select"
    /\ YieldCount >= 1
    /\ lastRes # None
    /\ lastRes[1] = "Err"
    /\ \E n \in Nodes :
          /\ n \in { PreOrder(anchor)[i] : i \in 1 .. Len(PreOrder(anchor)) }
          /\ ~ is_element(n)

\* C17: the index of a Select (resp. Text) is the number of items it has
\* returned so far: 0 at creation, one more after each call that yields, the
\* same after a call that yields nothing; the index an error reports is that
\* number too.
C17_IndexCountsYields ==
    /\ mode = "select" =>
          /\ sel.index = YieldCount
          /\ (lastRes # None /\ lastRes[1] = "Err") =>
                lastRes[2].index = YieldCount
    /\ mode = "text" =>
          /\ txt.index = YieldCount
          /\ (lastRes # None /\ lastRes[1] = "Err") =>
                lastRes[2].index = YieldCount

\* C17 witness: a Text has yielded two fragments, and its last call, a
\* try_next, failed.
C17_Witness ==
    /\ mode = "text"
    /\ YieldCount >= 2
    /\ lastCall = "try_next"
    /\ lastRes # None
    /\ lastRes[1] = "Err"
    /\ out[Len(out)] = None

\* The phase of the iterator after its first k calls.
Phase(k) ==
    IF k = 0 THEN "Created"
    ELSE IF out[k] = None THEN "Exhausted" ELSE "Scanning"

PhaseRank(ph) ==
    CASE ph = "Created" -> 0
      [] ph = "Scanning" -> 1
      [] ph = "Exhausted" -> 2

=============================================================================
